---- MODULE Spec2Model ----
(***************************************************************************)
(* A model of ngcpop.py: paginated discovery of research group ids, the    *)
(* per (group, designation) population units run in a thread pool of 10    *)
(* workers, the grade label mapper, the coin grade extractor and the       *)
(* final JSON document.                                                    *)
(*                                                                         *)
(* Python strings that the code takes apart (field names, grade labels)    *)
(* are sequences of one-character strings.  JSON values are records        *)
(* [t, v]: t is the JSON/Python type and v the number carried.             *)
(***************************************************************************)
EXTENDS Integers, Sequences, FiniteSets, TLC

VARIABLES
    pc,          \* position of the main thread
    page,        \* get_all_group_ids: local "page"
    ids,         \* get_all_group_ids: local "ids"; then main's group_ids
    groupsLog,   \* responses received from the groups endpoint, page 1..
    futures,     \* main: the futures dict, in submission order: (gid, des)
    ustate,      \* per submitted unit: state of its get_grades_for_group call
    popBackend,  \* population endpoint: the responses each URL has given so far
    collected,   \* units yielded by as_completed so far, in that order
    all_rows,    \* main: all_rows
    file,        \* ngc_population.json
    stdout,      \* sys.stdout: whether it has shown to encode U+274C, U+2705
    pool,        \* the executor seen as counters (pool specification)
    fn_in,       \* argument of a direct call of a function
    fn_out       \* its return value

vars == <<pc, page, ids, groupsLog, futures, ustate, popBackend, collected,
          all_rows, file, stdout, pool, fn_in, fn_out>>

mainVars == <<pc, page, ids, groupsLog, futures, ustate, popBackend,
              collected, all_rows, file, stdout>>

fnVars == <<fn_in, fn_out>>

(***************************************************************************)
(* Bounds of the model.                                                    *)
(***************************************************************************)
\* group ids the server knows: 1..MaxGroups, at most MaxGroups listed in all
MaxGroups == 1
\* the server never announces a page after page MaxPages
MaxPages == 2
\* grades given to map_grade directly: -MaxNegGrade..MaxGrade
MaxGrade == 75
MaxNegGrade == 3
\* fields of a coin record given to the extractor
MaxFields == 2
\* group ids found by discovery in the pool specification: 0..PoolMaxGroups
PoolMaxGroups == 6

(***************************************************************************)
(* Python strings and str -> int / int -> str.                             *)
(***************************************************************************)
DigitChars == <<"0", "1", "2", "3", "4", "5", "6", "7", "8", "9">>

\* str.isdigit() on the characters that occur in labels
IsDigit(c) == \E i \in 1..10 : DigitChars[i] = c

DigitVal(c) == (CHOOSE i \in 1..10 : DigitChars[i] = c) - 1

RECURSIVE NatToStr(_)
NatToStr(n) ==
    IF n < 10 THEN <<DigitChars[n + 1]>>
    ELSE NatToStr(n \div 10) \o <<DigitChars[(n % 10) + 1]>>

\* str(grade) inside an f-string
IntToStr(n) == IF n < 0 THEN <<"-">> \o NatToStr(0 - n) ELSE NatToStr(n)

RECURSIVE DigitsToNat(_)
DigitsToNat(s) ==
    IF s = <<>> THEN 0
    ELSE 10 * DigitsToNat(SubSeq(s, 1, Len(s) - 1)) + DigitVal(s[Len(s)])

\* A character outside printable ASCII is written as its code point,
\* "U+0666".  The characters of Unicode category Nd beyond "0".."9", one
\* row per script, in the order of their values 0..9.
UnicodeDecimals == <<
    <<"U+0660", "U+0661", "U+0662", "U+0663", "U+0664", "U+0665", "U+0666", "U+0667", "U+0668", "U+0669">>,
    <<"U+06F0", "U+06F1", "U+06F2", "U+06F3", "U+06F4", "U+06F5", "U+06F6", "U+06F7", "U+06F8", "U+06F9">>,
    <<"U+07C0", "U+07C1", "U+07C2", "U+07C3", "U+07C4", "U+07C5", "U+07C6", "U+07C7", "U+07C8", "U+07C9">>,
    <<"U+0966", "U+0967", "U+0968", "U+0969", "U+096A", "U+096B", "U+096C", "U+096D", "U+096E", "U+096F">>,
    <<"U+09E6", "U+09E7", "U+09E8", "U+09E9", "U+09EA", "U+09EB", "U+09EC", "U+09ED", "U+09EE", "U+09EF">>,
    <<"U+0A66", "U+0A67", "U+0A68", "U+0A69", "U+0A6A", "U+0A6B", "U+0A6C", "U+0A6D", "U+0A6E", "U+0A6F">>,
    <<"U+0AE6", "U+0AE7", "U+0AE8", "U+0AE9", "U+0AEA", "U+0AEB", "U+0AEC", "U+0AED", "U+0AEE", "U+0AEF">>,
    <<"U+0B66", "U+0B67", "U+0B68", "U+0B69", "U+0B6A", "U+0B6B", "U+0B6C", "U+0B6D", "U+0B6E", "U+0B6F">>,
    <<"U+0BE6", "U+0BE7", "U+0BE8", "U+0BE9", "U+0BEA", "U+0BEB", "U+0BEC", "U+0BED", "U+0BEE", "U+0BEF">>,
    <<"U+0C66", "U+0C67", "U+0C68", "U+0C69", "U+0C6A", "U+0C6B", "U+0C6C", "U+0C6D", "U+0C6E", "U+0C6F">>,
    <<"U+0CE6", "U+0CE7", "U+0CE8", "U+0CE9", "U+0CEA", "U+0CEB", "U+0CEC", "U+0CED", "U+0CEE", "U+0CEF">>,
    <<"U+0D66", "U+0D67", "U+0D68", "U+0D69", "U+0D6A", "U+0D6B", "U+0D6C", "U+0D6D", "U+0D6E", "U+0D6F">>,
    <<"U+0DE6", "U+0DE7", "U+0DE8", "U+0DE9", "U+0DEA", "U+0DEB", "U+0DEC", "U+0DED", "U+0DEE", "U+0DEF">>,
    <<"U+0E50", "U+0E51", "U+0E52", "U+0E53", "U+0E54", "U+0E55", "U+0E56", "U+0E57", "U+0E58", "U+0E59">>,
    <<"U+0ED0", "U+0ED1", "U+0ED2", "U+0ED3", "U+0ED4", "U+0ED5", "U+0ED6", "U+0ED7", "U+0ED8", "U+0ED9">>,
    <<"U+0F20", "U+0F21", "U+0F22", "U+0F23", "U+0F24", "U+0F25", "U+0F26", "U+0F27", "U+0F28", "U+0F29">>,
    <<"U+1040", "U+1041", "U+1042", "U+1043", "U+1044", "U+1045", "U+1046", "U+1047", "U+1048", "U+1049">>,
    <<"U+1090", "U+1091", "U+1092", "U+1093", "U+1094", "U+1095", "U+1096", "U+1097", "U+1098", "U+1099">>,
    <<"U+17E0", "U+17E1", "U+17E2", "U+17E3", "U+17E4", "U+17E5", "U+17E6", "U+17E7", "U+17E8", "U+17E9">>,
    <<"U+1810", "U+1811", "U+1812", "U+1813", "U+1814", "U+1815", "U+1816", "U+1817", "U+1818", "U+1819">>,
    <<"U+1946", "U+1947", "U+1948", "U+1949", "U+194A", "U+194B", "U+194C", "U+194D", "U+194E", "U+194F">>,
    <<"U+19D0", "U+19D1", "U+19D2", "U+19D3", "U+19D4", "U+19D5", "U+19D6", "U+19D7", "U+19D8", "U+19D9">>,
    <<"U+1A80", "U+1A81", "U+1A82", "U+1A83", "U+1A84", "U+1A85", "U+1A86", "U+1A87", "U+1A88", "U+1A89">>,
    <<"U+1A90", "U+1A91", "U+1A92", "U+1A93", "U+1A94", "U+1A95", "U+1A96", "U+1A97", "U+1A98", "U+1A99">>,
    <<"U+1B50", "U+1B51", "U+1B52", "U+1B53", "U+1B54", "U+1B55", "U+1B56", "U+1B57", "U+1B58", "U+1B59">>,
    <<"U+1BB0", "U+1BB1", "U+1BB2", "U+1BB3", "U+1BB4", "U+1BB5", "U+1BB6", "U+1BB7", "U+1BB8", "U+1BB9">>,
    <<"U+1C40", "U+1C41", "U+1C42", "U+1C43", "U+1C44", "U+1C45", "U+1C46", "U+1C47", "U+1C48", "U+1C49">>,
    <<"U+1C50", "U+1C51", "U+1C52", "U+1C53", "U+1C54", "U+1C55", "U+1C56", "U+1C57", "U+1C58", "U+1C59">>,
    <<"U+A620", "U+A621", "U+A622", "U+A623", "U+A624", "U+A625", "U+A626", "U+A627", "U+A628", "U+A629">>,
    <<"U+A8D0", "U+A8D1", "U+A8D2", "U+A8D3", "U+A8D4", "U+A8D5", "U+A8D6", "U+A8D7", "U+A8D8", "U+A8D9">>,
    <<"U+A900", "U+A901", "U+A902", "U+A903", "U+A904", "U+A905", "U+A906", "U+A907", "U+A908", "U+A909">>,
    <<"U+A9D0", "U+A9D1", "U+A9D2", "U+A9D3", "U+A9D4", "U+A9D5", "U+A9D6", "U+A9D7", "U+A9D8", "U+A9D9">>,
    <<"U+A9F0", "U+A9F1", "U+A9F2", "U+A9F3", "U+A9F4", "U+A9F5", "U+A9F6", "U+A9F7", "U+A9F8", "U+A9F9">>,
    <<"U+AA50", "U+AA51", "U+AA52", "U+AA53", "U+AA54", "U+AA55", "U+AA56", "U+AA57", "U+AA58", "U+AA59">>,
    <<"U+ABF0", "U+ABF1", "U+ABF2", "U+ABF3", "U+ABF4", "U+ABF5", "U+ABF6", "U+ABF7", "U+ABF8", "U+ABF9">>,
    <<"U+FF10", "U+FF11", "U+FF12", "U+FF13", "U+FF14", "U+FF15", "U+FF16", "U+FF17", "U+FF18", "U+FF19">>,
    <<"U+104A0", "U+104A1", "U+104A2", "U+104A3", "U+104A4", "U+104A5", "U+104A6", "U+104A7", "U+104A8", "U+104A9">>,
    <<"U+10D30", "U+10D31", "U+10D32", "U+10D33", "U+10D34", "U+10D35", "U+10D36", "U+10D37", "U+10D38", "U+10D39">>,
    <<"U+11066", "U+11067", "U+11068", "U+11069", "U+1106A", "U+1106B", "U+1106C", "U+1106D", "U+1106E", "U+1106F">>,
    <<"U+110F0", "U+110F1", "U+110F2", "U+110F3", "U+110F4", "U+110F5", "U+110F6", "U+110F7", "U+110F8", "U+110F9">>,
    <<"U+11136", "U+11137", "U+11138", "U+11139", "U+1113A", "U+1113B", "U+1113C", "U+1113D", "U+1113E", "U+1113F">>,
    <<"U+111D0", "U+111D1", "U+111D2", "U+111D3", "U+111D4", "U+111D5", "U+111D6", "U+111D7", "U+111D8", "U+111D9">>,
    <<"U+112F0", "U+112F1", "U+112F2", "U+112F3", "U+112F4", "U+112F5", "U+112F6", "U+112F7", "U+112F8", "U+112F9">>,
    <<"U+11450", "U+11451", "U+11452", "U+11453", "U+11454", "U+11455", "U+11456", "U+11457", "U+11458", "U+11459">>,
    <<"U+114D0", "U+114D1", "U+114D2", "U+114D3", "U+114D4", "U+114D5", "U+114D6", "U+114D7", "U+114D8", "U+114D9">>,
    <<"U+11650", "U+11651", "U+11652", "U+11653", "U+11654", "U+11655", "U+11656", "U+11657", "U+11658", "U+11659">>,
    <<"U+116C0", "U+116C1", "U+116C2", "U+116C3", "U+116C4", "U+116C5", "U+116C6", "U+116C7", "U+116C8", "U+116C9">>,
    <<"U+11730", "U+11731", "U+11732", "U+11733", "U+11734", "U+11735", "U+11736", "U+11737", "U+11738", "U+11739">>,
    <<"U+118E0", "U+118E1", "U+118E2", "U+118E3", "U+118E4", "U+118E5", "U+118E6", "U+118E7", "U+118E8", "U+118E9">>,
    <<"U+11950", "U+11951", "U+11952", "U+11953", "U+11954", "U+11955", "U+11956", "U+11957", "U+11958", "U+11959">>,
    <<"U+11C50", "U+11C51", "U+11C52", "U+11C53", "U+11C54", "U+11C55", "U+11C56", "U+11C57", "U+11C58", "U+11C59">>,
    <<"U+11D50", "U+11D51", "U+11D52", "U+11D53", "U+11D54", "U+11D55", "U+11D56", "U+11D57", "U+11D58", "U+11D59">>,
    <<"U+11DA0", "U+11DA1", "U+11DA2", "U+11DA3", "U+11DA4", "U+11DA5", "U+11DA6", "U+11DA7", "U+11DA8", "U+11DA9">>,
    <<"U+16A60", "U+16A61", "U+16A62", "U+16A63", "U+16A64", "U+16A65", "U+16A66", "U+16A67", "U+16A68", "U+16A69">>,
    <<"U+16AC0", "U+16AC1", "U+16AC2", "U+16AC3", "U+16AC4", "U+16AC5", "U+16AC6", "U+16AC7", "U+16AC8", "U+16AC9">>,
    <<"U+16B50", "U+16B51", "U+16B52", "U+16B53", "U+16B54", "U+16B55", "U+16B56", "U+16B57", "U+16B58", "U+16B59">>,
    <<"U+1D7CE", "U+1D7CF", "U+1D7D0", "U+1D7D1", "U+1D7D2", "U+1D7D3", "U+1D7D4", "U+1D7D5", "U+1D7D6", "U+1D7D7">>,
    <<"U+1D7D8", "U+1D7D9", "U+1D7DA", "U+1D7DB", "U+1D7DC", "U+1D7DD", "U+1D7DE", "U+1D7DF", "U+1D7E0", "U+1D7E1">>,
    <<"U+1D7E2", "U+1D7E3", "U+1D7E4", "U+1D7E5", "U+1D7E6", "U+1D7E7", "U+1D7E8", "U+1D7E9", "U+1D7EA", "U+1D7EB">>,
    <<"U+1D7EC", "U+1D7ED", "U+1D7EE", "U+1D7EF", "U+1D7F0", "U+1D7F1", "U+1D7F2", "U+1D7F3", "U+1D7F4", "U+1D7F5">>,
    <<"U+1D7F6", "U+1D7F7", "U+1D7F8", "U+1D7F9", "U+1D7FA", "U+1D7FB", "U+1D7FC", "U+1D7FD", "U+1D7FE", "U+1D7FF">>,
    <<"U+1E140", "U+1E141", "U+1E142", "U+1E143", "U+1E144", "U+1E145", "U+1E146", "U+1E147", "U+1E148", "U+1E149">>,
    <<"U+1E2F0", "U+1E2F1", "U+1E2F2", "U+1E2F3", "U+1E2F4", "U+1E2F5", "U+1E2F6", "U+1E2F7", "U+1E2F8", "U+1E2F9">>,
    <<"U+1E950", "U+1E951", "U+1E952", "U+1E953", "U+1E954", "U+1E955", "U+1E956", "U+1E957", "U+1E958", "U+1E959">>,
    <<"U+1FBF0", "U+1FBF1", "U+1FBF2", "U+1FBF3", "U+1FBF4", "U+1FBF5", "U+1FBF6", "U+1FBF7", "U+1FBF8", "U+1FBF9">>>>

\* the decimal digits int() reads: "0".."9" and every other Nd character
IsDecimal(c) ==
    \/ IsDigit(c)
    \/ \E b \in 1..Len(UnicodeDecimals) : \E i \in 1..10 :
           UnicodeDecimals[b][i] = c

DecimalVal(c) ==
    IF IsDigit(c) THEN DigitVal(c)
    ELSE (CHOOSE i \in 1..10 :
              \E b \in 1..Len(UnicodeDecimals) : UnicodeDecimals[b][i] = c) - 1

RECURSIVE DecimalsToNat(_)
DecimalsToNat(s) ==
    IF s = <<>> THEN 0
    ELSE 10 * DecimalsToNat(SubSeq(s, 1, Len(s) - 1)) + DecimalVal(s[Len(s)])

\* the white space int() ignores around the number: tab, line feed,
\* vertical tab, form feed, carriage return, space and the Unicode spaces
AsciiSpaces == {"\t", "\n", "U+000B", "\f", "\r", " "}

UnicodeSpaces == {"U+0085", "U+00A0", "U+1680", "U+2000", "U+2001", "U+2002",
    "U+2003", "U+2004", "U+2005", "U+2006", "U+2007", "U+2008", "U+2009",
    "U+200A", "U+2028", "U+2029", "U+202F", "U+205F", "U+3000"}

IsSpace(c) == c \in AsciiSpaces \/ c \in UnicodeSpaces

RECURSIVE Strip(_)
Strip(s) ==
    IF s = <<>> THEN s
    ELSE IF IsSpace(s[1]) THEN Strip(Tail(s))
    ELSE IF IsSpace(s[Len(s)]) THEN Strip(SubSeq(s, 1, Len(s) - 1))
    ELSE s

\* the digits of a literal: decimal digits, single "_" allowed between two
IsDigitString(d) ==
    /\ d /= <<>>
    /\ \A i \in 1..Len(d) :
          \/ IsDecimal(d[i])
          \/ /\ d[i] = "_"
             /\ 1 < i /\ i < Len(d)
             /\ IsDecimal(d[i - 1]) /\ IsDecimal(d[i + 1])

\* sys.get_int_max_str_digits() of the runtime: int() refuses a numeral of
\* more digits, leading zeros counted, sign, "_" and white space not
int_max_str_digits == 4300

\* int(s) of a str: [ok |-> FALSE] stands for ValueError
ParseInt(s) ==
    LET t == Strip(s)
        signed == t /= <<>> /\ t[1] \in {"+", "-"}
        d == IF signed THEN Tail(t) ELSE t
        digits == SelectSeq(d, IsDecimal)
        n == DecimalsToNat(digits)
    IN  IF IsDigitString(d) /\ Len(digits) <= int_max_str_digits
        THEN [ok |-> TRUE,
              val |-> IF signed /\ t[1] = "-" THEN 0 - n ELSE n]
        ELSE [ok |-> FALSE, val |-> 0]

StartsWith(s, p) == Len(s) >= Len(p) /\ SubSeq(s, 1, Len(p)) = p

\* position of the first "_" of s, Len(s) + 1 when there is none
FirstUnderscore(s) ==
    IF \E i \in 1..Len(s) : s[i] = "_"
    THEN CHOOSE i \in 1..Len(s) :
             s[i] = "_" /\ \A j \in 1..(i - 1) : s[j] /= "_"
    ELSE Len(s) + 1

\* key.split("_")[1], for a key that holds a "_"
SplitField1(key) ==
    LET rest == SubSeq(key, FirstUnderscore(key) + 1, Len(key))
    IN  SubSeq(rest, 1, FirstUnderscore(rest) - 1)

POPULATION_ == <<"p", "o", "p", "u", "l", "a", "t", "i", "o", "n", "_">>

PF == <<"P", "F">>
MS == <<"M", "S">>
Designations == {PF, MS}

(***************************************************************************)
(* map_grade                                                               *)
(***************************************************************************)
map_grade_NoVG(designation, grade) ==
    IF grade >= 60 THEN designation \o IntToStr(grade)
    ELSE IF grade >= 50 THEN <<"A", "U">> \o IntToStr(grade)
    ELSE IF grade >= 40 THEN <<"X", "F">> \o IntToStr(grade)
    ELSE IF grade >= 20 THEN <<"V", "F">> \o IntToStr(grade)
    ELSE IF grade >= 12 THEN <<"F">> \o IntToStr(grade)
    ELSE IF grade >= 4 THEN <<"G">> \o IntToStr(grade)
    ELSE IF grade = 3 THEN <<"A", "G", "3">>
    ELSE IF grade = 2 THEN <<"F", "R", "2">>
    ELSE IF grade = 1 THEN <<"P", "O", "1">>
    ELSE designation \o IntToStr(grade)

map_grade(designation, grade) ==
    IF grade >= 60 THEN designation \o IntToStr(grade)
    ELSE IF grade >= 50 THEN <<"A", "U">> \o IntToStr(grade)
    ELSE IF grade >= 40 THEN <<"X", "F">> \o IntToStr(grade)
    ELSE IF grade >= 20 THEN <<"V", "F">> \o IntToStr(grade)
    ELSE IF grade >= 12 THEN <<"F">> \o IntToStr(grade)
    ELSE IF grade >= 8 THEN <<"V", "G">> \o IntToStr(grade)
    ELSE IF grade >= 4 THEN <<"G">> \o IntToStr(grade)
    ELSE IF grade = 3 THEN <<"A", "G", "3">>
    ELSE IF grade = 2 THEN <<"F", "R", "2">>
    ELSE IF grade = 1 THEN <<"P", "O", "1">>
    ELSE designation \o IntToStr(grade)

(***************************************************************************)
(* JSON values and the coin grade extractor (get_grades_for_group, the     *)
(* body of "for coin in items").                                           *)
(***************************************************************************)
JInt(n) == [t |-> "int", v |-> n]
\* Python's True is the int 1, False the int 0
JBool(b) == [t |-> "bool", v |-> IF b THEN 1 ELSE 0]
\* a JSON number with a fraction, v + 0.5
JFloat(n) == [t |-> "float", v |-> n]
\* the n-th string of some list of strings
JStr(n) == [t |-> "str", v |-> n]
JNull == [t |-> "null", v |-> 0]

\* isinstance(value, int): bool is a subclass of int
IsInstanceInt(value) == value.t \in {"int", "bool"}

\* f"Group {group_id}"
DefaultName(group_id) == [t |-> "group", v |-> group_id]

\* coin.get("displayName", f"Group {group_id}")
DisplayNameKey == <<"d", "i", "s", "p", "l", "a", "y", "N", "a", "m", "e">>

GetDisplayName(coin, group_id) ==
    IF \E i \in 1..Len(coin) : coin[i].key = DisplayNameKey
    THEN coin[CHOOSE i \in 1..Len(coin) : coin[i].key = DisplayNameKey].value
    ELSE DefaultName(group_id)

\* the loop "for key, value in coin.items()" over fields 1..n of the record
RECURSIVE GradeCounts(_, _, _)
GradeCounts(coin, designation, n) ==
    IF n = 0 THEN <<>>
    ELSE LET before == GradeCounts(coin, designation, n - 1)
             key == coin[n].key
             value == coin[n].value
         IN  IF StartsWith(key, POPULATION_) /\ IsInstanceInt(value) /\ value.v > 0
             THEN LET grade == ParseInt(SplitField1(key))
                  IN  IF grade.ok
                      THEN Append(before,
                                  <<map_grade(designation, grade.val), value>>)
                      ELSE before
             ELSE before

\* int("".join([c for c in x[0] if c.isdigit()])); every label ends with
\* the digits of its grade, so the joined text is never empty
SortKey(x) == DigitsToNat(SelectSeq(x[1], IsDigit))

InsertDescUnstable(sorted, x) ==
    LET keep == {i \in 0..Len(sorted) :
                    \A j \in 1..i : SortKey(sorted[j]) > SortKey(x)}
        k == CHOOSE i \in keep : \A j \in keep : j <= i
    IN  SubSeq(sorted, 1, k) \o <<x>> \o SubSeq(sorted, k + 1, Len(sorted))

\* insert x behind every entry whose key is >= its key
InsertDesc(sorted, x) ==
    LET keep == {i \in 0..Len(sorted) :
                    \A j \in 1..i : SortKey(sorted[j]) >= SortKey(x)}
        k == CHOOSE i \in keep : \A j \in keep : j <= i
    IN  SubSeq(sorted, 1, k) \o <<x>> \o SubSeq(sorted, k + 1, Len(sorted))

\* grade_counts.sort(key=..., reverse=True): stable, descending
RECURSIVE SortDesc(_)
SortDesc(s) ==
    IF s = <<>> THEN <<>>
    ELSE InsertDesc(SortDesc(SubSeq(s, 1, Len(s) - 1)), s[Len(s)])

\* what one coin adds to "results": <<>> or one CoinResult
CoinRows(coin, group_id, designation) ==
    LET grade_counts == GradeCounts(coin, designation, Len(coin))
        sorted == SortDesc(grade_counts)
    IN  IF grade_counts /= <<>>
        THEN <<[GroupID |-> group_id,
                CoinName |-> GetDisplayName(coin, group_id),
                Designation |-> designation,
                Grades |-> [i \in 1..Len(sorted) |->
                               [Grade |-> sorted[i][1], Count |-> sorted[i][2]]]]>>
        ELSE <<>>

\* "for coin in items": the rows of the coins 1..n of one page
RECURSIVE PageRows(_, _, _, _)
PageRows(items, group_id, designation, n) ==
    IF n = 0 THEN <<>>
    ELSE PageRows(items, group_id, designation, n - 1)
         \o CoinRows(items[n], group_id, designation)

(***************************************************************************)
(* Direct calls of map_grade and of the extractor, on inputs drawn from    *)
(* bounded sets.                                                           *)
(***************************************************************************)
GroupIds == 1..MaxGroups

Grades == (0 - MaxNegGrade)..MaxGrade

K_65 == POPULATION_ \o <<"6", "5">>
K_065 == POPULATION_ \o <<"0", "6", "5">>
K_4 == POPULATION_ \o <<"4">>
K_neg4 == POPULATION_ \o <<"-", "4">>
K_x == POPULATION_ \o <<"x">>
K_65_p == POPULATION_ \o <<"6", "5", "_", "p">>
\* a tab, ARABIC-INDIC DIGIT SIX and "5": int() reads 65
K_tab65 == POPULATION_ \o <<"\t", "U+0666", "5">>

FieldKeys == {K_65, K_065, K_4, K_neg4, K_x, K_65_p, K_tab65, DisplayNameKey}

FieldValues == {JInt(3), JInt(0), JInt(-2), JBool(TRUE), JFloat(3), JStr(1)}

\* the coin record whose i-th field is keys[i]: vals[i]
CoinOf(keys, vals) ==
    [i \in DOMAIN keys |-> [key |-> keys[i], value |-> vals[i]]]

\* a JSON object has no two fields of one name
DistinctKeys(keys) ==
    \A i, j \in DOMAIN keys : keys[i] = keys[j] => i = j

NotCalled == [done |-> FALSE, ret |-> <<>>]

\* ngc_population.json before the run: not opened, nothing of this run in it
NoFile == [writes |-> 0, rows |-> <<>>, torn |-> FALSE]

IdleData ==
    /\ page = 0 /\ ids = <<>> /\ groupsLog = <<>>
    /\ futures = <<>> /\ ustate = <<>> /\ popBackend = <<>>
    /\ collected = <<>> /\ all_rows = <<>> /\ file = NoFile
    /\ stdout = "untested"

IdleMain == pc = "idle" /\ IdleData

IdlePool == pool = [total |-> 0, submitted |-> 0, started |-> 0, hung |-> 0,
                    finished |-> 0, collected |-> 0]

IdleFn == fn_in = [fn |-> "none"] /\ fn_out = NotCalled

InitGrade ==
    /\ IdleMain /\ IdlePool
    /\ fn_in \in [fn : {"map_grade"}, designation : Designations, grade : Grades]
    /\ fn_out = NotCalled

CallMapGrade ==
    /\ fn_in.fn = "map_grade" /\ ~fn_out.done
    /\ fn_out' = [done |-> TRUE, ret |-> map_grade(fn_in.designation, fn_in.grade)]
    /\ UNCHANGED <<mainVars, pool, fn_in>>

NextGrade == CallMapGrade

SpecGrade == InitGrade /\ [][NextGrade]_vars

InitExtract ==
    /\ IdleMain /\ IdlePool
    /\ \E n \in 0..MaxFields :
       \E keys \in [1..n -> FieldKeys], vals \in [1..n -> FieldValues] :
       \E d \in Designations, g \in GroupIds :
           /\ DistinctKeys(keys)
           /\ fn_in = [fn |-> "extract", designation |-> d, group_id |-> g,
                       coin |-> CoinOf(keys, vals)]
    /\ fn_out = NotCalled

CallExtract ==
    /\ fn_in.fn = "extract" /\ ~fn_out.done
    /\ fn_out' = [done |-> TRUE,
                  ret |-> CoinRows(fn_in.coin, fn_in.group_id, fn_in.designation)]
    /\ UNCHANGED <<mainVars, pool, fn_in>>

NextExtract == CallExtract

SpecExtract == InitExtract /\ [][NextExtract]_vars

(***************************************************************************)
(* map_grade: the band table.                                              *)
(***************************************************************************)
\* the text after the first n characters of a label
LabelRest(label, n) == SubSeq(label, n + 1, Len(label))

\* label is prefix followed by the decimal numeral of g, as Python prints it
IsPrefixThenGrade(label, prefix, g) ==
    LET num == LabelRest(label, Len(prefix))
    IN  /\ StartsWith(label, prefix)
        /\ ParseInt(num) = [ok |-> TRUE, val |-> g]
        /\ num[1] \notin {"+", " "} /\ num[Len(num)] /= " "
        /\ (g /= 0 => (IF g < 0 THEN num[2] ELSE num[1]) /= "0")
        /\ (g = 0 => num = <<"0">>)

\* the bands the code applies: <<lowest grade, highest grade, prefix>>
CodeBands ==
    {<<50, 59, <<"A", "U">> >>, <<40, 49, <<"X", "F">> >>,
     <<20, 39, <<"V", "F">> >>, <<12, 19, <<"F">> >>,
     <<8, 11, <<"V", "G">> >>, <<4, 7, <<"G">> >>,
     <<3, 3, <<"A", "G">> >>, <<2, 2, <<"F", "R">> >>, <<1, 1, <<"P", "O">> >>}

MapGradeCalled == fn_in.fn = "map_grade" /\ fn_out.done

\* C8 as stated: 60-70 the designation, 50-59 AU, 40-49 XF, 20-39 VF,
\* 12-19 F, 6-11 G or VG, 3-5 AG, FR or PO, 0 and above 70 the designation,
\* each followed by the grade; (65, MS) is MS65, (55, PF) is AU55 and
\* (1, MS) is PO1.
C8_AsStated ==
    MapGradeCalled =>
        LET g == fn_in.grade
            d == fn_in.designation
            l == fn_out.ret
        IN  /\ (g >= 60 \/ g = 0) => IsPrefixThenGrade(l, d, g)
            /\ (g \in 50..59) => IsPrefixThenGrade(l, <<"A", "U">>, g)
            /\ (g \in 40..49) => IsPrefixThenGrade(l, <<"X", "F">>, g)
            /\ (g \in 20..39) => IsPrefixThenGrade(l, <<"V", "F">>, g)
            /\ (g \in 12..19) => IsPrefixThenGrade(l, <<"F">>, g)
            /\ (g \in 6..11) => \/ IsPrefixThenGrade(l, <<"G">>, g)
                                \/ IsPrefixThenGrade(l, <<"V", "G">>, g)
            /\ (g \in 3..5) => \/ IsPrefixThenGrade(l, <<"A", "G">>, g)
                               \/ IsPrefixThenGrade(l, <<"F", "R">>, g)
                               \/ IsPrefixThenGrade(l, <<"P", "O">>, g)
            /\ (g = 65 /\ d = MS) => l = <<"M", "S", "6", "5">>
            /\ (g = 55 /\ d = PF) => l = <<"A", "U", "5", "5">>
            /\ (g = 1 /\ d = MS) => l = <<"P", "O", "1">>

\* C8, amended: map_grade returns exactly one label, the prefix of the one
\* band of the code's table that holds g (50-59 AU, 40-49 XF, 20-39 VF,
\* 12-19 F, 8-11 VG, 4-7 G, 3 AG, 2 FR, 1 PO) followed by g, and the
\* designation followed by g for every g >= 60 and every g <= 0; (65, MS)
\* is MS65, (55, PF) is AU55 and (1, MS) is PO1.
C8_MapGrade ==
    MapGradeCalled =>
        LET g == fn_in.grade
            d == fn_in.designation
            l == fn_out.ret
            hit == {b \in CodeBands : b[1] <= g /\ g <= b[2]}
        IN  /\ Cardinality(hit) <= 1
            /\ \A b \in hit : IsPrefixThenGrade(l, b[3], g)
            /\ hit = {} => (g >= 60 \/ g <= 0) /\ IsPrefixThenGrade(l, d, g)
            /\ (g = 65 /\ d = MS) => l = <<"M", "S", "6", "5">>
            /\ (g = 55 /\ d = PF) => l = <<"A", "U", "5", "5">>
            /\ (g = 1 /\ d = MS) => l = <<"P", "O", "1">>

\* map_grade(PF, 4) returned G4: a grade of the stated 3-5 band
C8_Witness ==
    /\ MapGradeCalled /\ fn_in.grade = 4 /\ fn_in.designation = PF
    /\ fn_out.ret = <<"G", "4">>

(***************************************************************************)
(* The extractor.                                                          *)
(***************************************************************************)
ExtractCalled == fn_in.fn = "extract" /\ fn_out.done

\* the text of a field name after "population_"
Suffix(key) == SubSeq(key, Len(POPULATION_) + 1, Len(key))

\* a field population_<N>, N a numeral, whose value is an integer > 0
CountingField(f) ==
    /\ StartsWith(f.key, POPULATION_)
    /\ ParseInt(Suffix(f.key)).ok
    /\ f.value.t = "int" /\ f.value.v > 0

\* the entry the claim gives a counting field
EntryOf(f, designation) ==
    [Grade |-> map_grade(designation, ParseInt(Suffix(f.key)).val),
     Count |-> f.value]

Occurrences(seq, x) == Cardinality({i \in 1..Len(seq) : seq[i] = x})

\* C9: the extractor emits a CoinResult if and only if some field
\* population_<N> with a numeric suffix has a strictly positive integer
\* value, and the Grades then hold exactly one entry (map_grade(designation,
\* N), value) per such field and none for any other field, so Grades is
\* never empty.
C9_AsStated ==
    ExtractCalled =>
        LET coin == fn_in.coin
            d == fn_in.designation
            counting == SelectSeq(coin, CountingField)
            expected == [i \in 1..Len(counting) |-> EntryOf(counting[i], d)]
        IN  /\ Len(fn_out.ret) = (IF counting = <<>> THEN 0 ELSE 1)
            /\ fn_out.ret /= <<>> =>
                 LET G == fn_out.ret[1].Grades
                 IN  /\ G /= <<>>
                     /\ Len(G) = Len(expected)
                     /\ \A i \in 1..Len(G) :
                            Occurrences(G, G[i]) = Occurrences(expected, G[i])

(***************************************************************************)
(* The order of Grades.                                                    *)
(***************************************************************************)
\* the number spelled by the digits of a label, read left to right
RECURSIVE EmbeddedFrom(_, _, _)
EmbeddedFrom(label, i, acc) ==
    IF i > Len(label) THEN acc
    ELSE EmbeddedFrom(label, i + 1,
                      IF IsDigit(label[i]) THEN 10 * acc + DigitVal(label[i])
                      ELSE acc)

EmbeddedNumber(label) == EmbeddedFrom(label, 1, 0)

\* the entries of a sequence of [Grade, Count] whose embedded number is k
RECURSIVE WithNumber(_, _)
WithNumber(entries, k) ==
    IF entries = <<>> THEN <<>>
    ELSE (IF EmbeddedNumber(entries[1].Grade) = k THEN <<entries[1]>> ELSE <<>>)
         \o WithNumber(Tail(entries), k)

\* the entries in the order the fields are met in the record
EncounterOrder(coin, designation) ==
    LET gc == GradeCounts(coin, designation, Len(coin))
    IN  [i \in 1..Len(gc) |-> [Grade |-> gc[i][1], Count |-> gc[i][2]]]

\* C10: in every emitted CoinResult the Grades are non-increasing in the
\* number formed by the digits of each label, and entries whose numbers are
\* equal keep the order in which their fields were met in the coin record.
C10_GradesSorted ==
    ExtractCalled =>
        \A r \in 1..Len(fn_out.ret) :
            LET G == fn_out.ret[r].Grades
                met == EncounterOrder(fn_in.coin, fn_in.designation)
            IN  /\ \A i, j \in 1..Len(G) :
                       i < j => EmbeddedNumber(G[i].Grade) >= EmbeddedNumber(G[j].Grade)
                /\ \A i \in 1..Len(G) :
                       LET k == EmbeddedNumber(G[i].Grade)
                       IN  WithNumber(G, k) = WithNumber(met, k)

\* a CoinResult whose first two entries tie on the number and differ, and
\* whose fields were met in that order
C10_Witness ==
    /\ ExtractCalled /\ fn_out.ret /= <<>>
    /\ LET G == fn_out.ret[1].Grades
       IN  /\ Len(G) = 2 /\ G[1] /= G[2]
           /\ EmbeddedNumber(G[1].Grade) = EmbeddedNumber(G[2].Grade)
           /\ G[1].Grade = <<"M", "S", "-", "4">>

(***************************************************************************)
(* The remote API.  A response is an HTTP failure (requests.get or         *)
(* raise_for_status raises) or a JSON body; Items and ShowNextPage may be  *)
(* absent from the body.                                                   *)
(***************************************************************************)
HttpError == [status |-> "error", hasItems |-> FALSE, Items |-> <<>>,
              ShowNextPage |-> "missing"]

Body(items, next) == [status |-> "ok", hasItems |-> TRUE, Items |-> items,
                      ShowNextPage |-> next]

BodyNoItems(next) == [status |-> "ok", hasItems |-> FALSE, Items |-> <<>>,
                      ShowNextPage |-> next]

\* fetch_json raises
RaisesNever(data) == FALSE

Raises(data) == data.status = "error"

\* data.get("Items", [])
GetItems(data) == IF data.hasItems THEN data.Items ELSE <<>>

\* data.get("ShowNextPage"), as a truth value
ShowNextAlways(data) == TRUE

ShowNextPage(data) == data.ShowNextPage = "true"

\* an item of the groups endpoint
GroupItem(g) == [researchGroupID |-> g]

\* the coin the server lists first on page p of a population report
Coin(p) == <<[key |-> DisplayNameKey, value |-> JStr(p)],
             [key |-> K_65, value |-> JInt(p)]>>

\* the string "\ud800", a lone surrogate: JSON text can carry it, utf-8 cannot
LoneSurrogate == JStr(0)

\* a coin of page p whose name is that string
BadCoin(p) == <<[key |-> DisplayNameKey, value |-> LoneSurrogate],
                [key |-> K_65, value |-> JInt(p)]>>

\* a coin with no positive population
ZeroCoin == <<[key |-> K_65, value |-> JInt(0)]>>

\* whether the server may announce a page after page p
MayAnnounce(p) == p < MaxPages

NextFlags(p) == {"false"} \cup (IF MayAnnounce(p) THEN {"true"} ELSE {})

\* the largest id of a sequence of group ids, 0 when it is empty
RECURSIVE MaxId(_)
MaxId(found) ==
    IF found = <<>> THEN 0
    ELSE LET m == MaxId(Tail(found)) IN IF found[1] > m THEN found[1] ELSE m

\* Group ids are opaque keys: the ids are numbered in the order in which the
\* server first lists them, so the next item is an id listed before or the
\* next new id.
ListableIds(found) == {g \in GroupIds : g <= MaxId(found) + 1}

\* groups endpoint, as driven in the whole program: at most MaxGroups ids
GroupResponses(p, found) ==
    {HttpError, Body(<<>>, "false")}
    \cup (IF Len(found) < MaxGroups
          THEN {Body(<<GroupItem(g)>>, n) :
                    g \in ListableIds(found), n \in NextFlags(p)}
          ELSE {})

\* population endpoint, as driven in the whole program; the coin whose name
\* cannot be encoded is served as the only coin of a report of one page
PopResponses(p) ==
    {HttpError}
    \cup {Body(<<Coin(p)>>, n) : n \in NextFlags(p)}
    \cup (IF p = 1 THEN {Body(<<BadCoin(p)>>, "false")} ELSE {})

\* every shape of response, for the paginated fetches taken alone
AllFlags(p) == {"missing"} \cup NextFlags(p)

AllGroupResponses(p, found) ==
    {HttpError}
    \cup {BodyNoItems(n) : n \in {"missing", "false", "true"}}
    \cup {Body(<<>>, n) : n \in {"missing", "false", "true"}}
    \cup {Body(<<GroupItem(g)>>, n) : g \in GroupIds, n \in AllFlags(p)}
    \cup {Body(<<GroupItem(g), GroupItem(h)>>, n) :
              g \in GroupIds, h \in GroupIds, n \in AllFlags(p)}

AllPopResponses(p) ==
    {HttpError}
    \cup {BodyNoItems(n) : n \in {"missing", "false", "true"}}
    \cup {Body(<<>>, n) : n \in {"missing", "false", "true"}}
    \cup {Body(<<Coin(p)>>, n) : n \in AllFlags(p)}
    \cup {Body(<<Coin(p), ZeroCoin>>, n) : n \in AllFlags(p)}

(***************************************************************************)
(* get_all_group_ids: one turn of its loop.                                *)
(***************************************************************************)
\* the record of one request: the page asked and what came back
Logged(p, data) ==
    [page |-> p, status |-> data.status, hasItems |-> data.hasItems,
     nItems |-> Len(data.Items), next |-> data.ShowNextPage]

\* [item["researchGroupID"] for item in items]
GroupIdsOf(items) == [i \in 1..Len(items) |-> items[i].researchGroupID]

FetchGroupsPage(data) ==
    /\ pc = "discover"
    /\ groupsLog' = Append(groupsLog, Logged(page, data))
    /\ IF Raises(data)
       THEN pc' = "crashed" /\ UNCHANGED <<page, ids>>
       ELSE IF GetItems(data) = <<>>
       THEN pc' = "submit" /\ UNCHANGED <<page, ids>>
       ELSE /\ ids' = ids \o GroupIdsOf(GetItems(data))
            /\ IF ~ShowNextPage(data)
               THEN pc' = "submit" /\ UNCHANGED page
               ELSE page' = page + 1 /\ UNCHANGED pc
    /\ UNCHANGED <<futures, ustate, popBackend, collected, all_rows, file,
                   stdout, pool, fnVars>>

Discover == \E data \in GroupResponses(page, ids) : FetchGroupsPage(data)

(***************************************************************************)
(* main: the submit loop, the pool, the as_completed loop, the dump.       *)
(* pc is "crashed" when discovery raised, "aborted" when the as_completed  *)
(* loop raised, "dump_failed" when json.dump raised, "print_failed" when   *)
(* the last print raised and "done" when main returned.                    *)
(***************************************************************************)
max_workers == 10

Units == 1..Len(futures)

NewCall == [st |-> "queued", page |-> 1, results |-> <<>>, log |-> <<>>]

\* one executor.submit(get_grades_for_group, gid, des) of "for gid in
\* group_ids": des is "PF" and, at the next step, "MS"
Submit ==
    /\ pc = "submit"
    /\ Len(futures) < 2 * Len(ids)
    /\ LET gid == ids[(Len(futures) \div 2) + 1]
           des == IF Len(futures) % 2 = 0 THEN PF ELSE MS
       IN  /\ futures' = Append(futures, [gid |-> gid, des |-> des])
           /\ ustate' = Append(ustate, NewCall)
    /\ UNCHANGED <<pc, page, ids, groupsLog, popBackend, collected, all_rows,
                   file, stdout, pool, fnVars>>

\* the for loop over group_ids is over: as_completed(futures) is entered
BeginCollect ==
    /\ pc = "submit"
    /\ Len(futures) = 2 * Len(ids)
    /\ pc' = "collect"
    /\ UNCHANGED <<page, ids, groupsLog, futures, ustate, popBackend,
                   collected, all_rows, file, stdout, pool, fnVars>>

InFlight == Cardinality({u \in Units : ustate[u].st = "running"})

\* a worker thread takes the oldest queued unit; at most max_workers threads
StartUnit(u) ==
    /\ u \in Units
    /\ ustate[u].st = "queued"
    /\ \A v \in 1..(u - 1) : ustate[v].st /= "queued"
    /\ InFlight < max_workers
    /\ ustate' = [ustate EXCEPT ![u].st = "running"]
    /\ UNCHANGED <<pc, page, ids, groupsLog, futures, popBackend, collected,
                   all_rows, file, stdout, pool, fnVars>>

Url(u) == <<futures[u].gid, futures[u].des, ustate[u].page>>

\* the responses a URL has given so far
Asked(url) == IF url \in DOMAIN popBackend THEN popBackend[url] ELSE {}

\* get_grades_for_group: one turn of its loop, in the worker that runs u;
\* the server is asked at every turn and answers as it likes
FetchPopPage(u, data) ==
    /\ u \in Units
    /\ ustate[u].st = "running"
    /\ popBackend' = (Url(u) :> (Asked(Url(u)) \cup {data})) @@ popBackend
    /\ LET me == ustate[u]
           logged == Append(me.log, Logged(me.page, data))
           rows == me.results \o PageRows(GetItems(data), futures[u].gid,
                                          futures[u].des, Len(GetItems(data)))
       IN  ustate' = [ustate EXCEPT ![u] =
               IF Raises(data)
               THEN [me EXCEPT !.st = "raised", !.log = logged]
               ELSE IF GetItems(data) = <<>>
               THEN [me EXCEPT !.st = "returned", !.log = logged]
               ELSE IF ~ShowNextPage(data)
               THEN [me EXCEPT !.st = "returned", !.log = logged,
                               !.results = rows]
               ELSE [me EXCEPT !.page = me.page + 1, !.log = logged,
                               !.results = rows]]
    /\ UNCHANGED <<pc, page, ids, groupsLog, futures, collected, all_rows,
                   file, stdout, pool, fnVars>>

Work(u) == \E data \in PopResponses(ustate[u].page) : FetchPopPage(u, data)

Raised(u) == ustate[u].st = "raised"

Returned(u) == ustate[u].st = "returned"

\* future.result() raised or returned
Finished(u) == Returned(u) \/ Raised(u)

\* try: all_rows.extend(future.result()) except Exception: ...
ExtendRowsLeaky(all, u) == all \o ustate[u].results

ExtendRows(all, u) ==
    IF Returned(u) THEN all \o ustate[u].results ELSE all

\* print of a line that holds U+274C or U+2705: it raises UnicodeEncodeError
\* when the encoding of sys.stdout has no such character.  The encoding is
\* the environment's and the same all through a run; it shows at the first
\* such print.
PrintOutcomes ==
    IF stdout = "encodes" THEN {"printed"}
    ELSE {"printed", "UnicodeEncodeError"}

\* one turn of "for i, future in enumerate(as_completed(futures))"; the
\* except branch prints, and what print raises there leaves main
Collect(u) ==
    /\ pc = "collect"
    /\ u \in Units
    /\ Finished(u)
    /\ \A i \in 1..Len(collected) : collected[i] /= u
    /\ collected' = Append(collected, u)
    /\ all_rows' = ExtendRows(all_rows, u)
    /\ IF Raised(u)
       THEN \E out \in PrintOutcomes :
                IF out = "printed"
                THEN stdout' = "encodes" /\ UNCHANGED pc
                ELSE pc' = "aborted" /\ UNCHANGED stdout
       ELSE UNCHANGED <<pc, stdout>>
    /\ UNCHANGED <<page, ids, groupsLog, futures, ustate, popBackend,
                   file, pool, fnVars>>

\* as_completed has yielded every future
SomeCollected == collected /= <<>> \/ futures = <<>>

AllCollected == Len(collected) = Len(futures)

\* the with block is left: shutdown(wait=True)
ExitPool ==
    /\ pc = "collect"
    /\ AllCollected
    /\ pc' = "write"
    /\ UNCHANGED <<page, ids, groupsLog, futures, ustate, popBackend,
                   collected, all_rows, file, stdout, pool, fnVars>>

\* the utf-8 file takes every string but one that holds a lone surrogate
Encodable(row) == row.CoinName /= LoneSurrogate

\* the rows json.dump has written in full when it meets such a string
RECURSIVE DumpedBeforeError(_)
DumpedBeforeError(rows) ==
    IF rows = <<>> \/ ~Encodable(rows[1]) THEN <<>>
    ELSE <<rows[1]>> \o DumpedBeforeError(Tail(rows))

\* open("ngc_population.json", "w") truncates the file; json.dump(all_rows, f,
\* ensure_ascii=False) writes the rows one after the other and raises
\* UnicodeEncodeError at a string the file cannot encode, which leaves the
\* rows before it and the opening of the row that holds it; then the print
\* of the line that starts with U+2705
WriteFile ==
    /\ pc = "write"
    /\ IF \A i \in 1..Len(all_rows) : Encodable(all_rows[i])
       THEN /\ file' = [writes |-> file.writes + 1, rows |-> all_rows,
                        torn |-> FALSE]
            /\ \E out \in PrintOutcomes :
                   IF out = "printed"
                   THEN pc' = "done" /\ stdout' = "encodes"
                   ELSE pc' = "print_failed" /\ UNCHANGED stdout
       ELSE /\ file' = [writes |-> file.writes + 1,
                        rows |-> DumpedBeforeError(all_rows), torn |-> TRUE]
            /\ pc' = "dump_failed"
            /\ UNCHANGED stdout
    /\ UNCHANGED <<page, ids, groupsLog, futures, ustate, popBackend,
                   collected, all_rows, pool, fnVars>>

Init ==
    /\ pc = "discover" /\ page = 1 /\ ids = <<>> /\ groupsLog = <<>>
    /\ futures = <<>> /\ ustate = <<>> /\ popBackend = <<>>
    /\ collected = <<>> /\ all_rows = <<>>
    /\ file = NoFile /\ stdout = "untested"
    /\ IdlePool /\ IdleFn

Next ==
    \/ Discover
    \/ Submit
    \/ BeginCollect
    \/ \E u \in Units : StartUnit(u)
    \/ \E u \in Units : Work(u)
    \/ \E u \in Units : Collect(u)
    \/ ExitPool
    \/ WriteFile

Spec == Init /\ [][Next]_vars

(***************************************************************************)
(* The two paginated fetches taken alone, against every shape of response: *)
(* get_all_group_ids() as main calls it, or one direct call of             *)
(* get_grades_for_group(gid, des).                                         *)
(***************************************************************************)
InitPage ==
    /\ page = 1 /\ ids = <<>> /\ groupsLog = <<>>
    /\ popBackend = <<>> /\ collected = <<>> /\ all_rows = <<>>
    /\ file = NoFile /\ stdout = "untested"
    /\ IdlePool /\ IdleFn
    /\ \/ pc = "discover" /\ futures = <<>> /\ ustate = <<>>
       \/ /\ pc = "call"
          /\ futures \in {<<[gid |-> g, des |-> d]>> :
                              g \in GroupIds, d \in Designations}
          /\ ustate = <<[NewCall EXCEPT !.st = "running"]>>

DiscoverAny == \E data \in AllGroupResponses(page, ids) : FetchGroupsPage(data)

WorkAny(u) == \E data \in AllPopResponses(ustate[u].page) : FetchPopPage(u, data)

NextPage ==
    \/ DiscoverAny
    \/ \E u \in Units : WorkAny(u)

SpecPage == InitPage /\ [][NextPage]_vars

\* a logged response that ends the pagination: Items empty or missing, or
\* ShowNextPage falsy
EndsPagination(e) ==
    e.status = "ok" /\ (~e.hasItems \/ e.nItems = 0 \/ e.next /= "true")

\* the requests of one loop: "asking" while the loop still runs, "returned"
\* when it has returned normally
PagedInOrder(log, nextPg, asking, returned) ==
    /\ \A i \in 1..Len(log) : log[i].page = i
    /\ \A i \in 1..(Len(log) - 1) :
           log[i].status = "ok" /\ ~EndsPagination(log[i])
    /\ asking => /\ nextPg = Len(log) + 1
                 /\ log /= <<>> => /\ log[Len(log)].status = "ok"
                                   /\ ~EndsPagination(log[Len(log)])
    /\ returned => log /= <<>> /\ EndsPagination(log[Len(log)])

\* C1: in both paginated fetches, for every response of the server, the
\* pages are requested in the order 1, 2, 3, ... without gap or repeat; no
\* page is requested after a page whose response ends the pagination; and
\* the loop returns only on such a page.
C1_Pagination ==
    /\ PagedInOrder(groupsLog, page, pc = "discover",
                    pc \notin {"discover", "crashed", "call"})
    /\ \A u \in Units :
           PagedInOrder(ustate[u].log, ustate[u].page,
                        ustate[u].st = "running", ustate[u].st = "returned")

\* get_grades_for_group returned on page 2, whose Items were empty although
\* ShowNextPage was true
C1_Witness ==
    /\ pc = "call" /\ ustate[1].st = "returned" /\ Len(ustate[1].log) = 2
    /\ ustate[1].log[2].hasItems /\ ustate[1].log[2].nItems = 0
    /\ ustate[1].log[2].next = "true"

(***************************************************************************)
(* The whole run.                                                          *)
(***************************************************************************)
InSeq(seq, x) == \E i \in 1..Len(seq) : seq[i] = x

IsPermutationOf(seq, S) ==
    /\ Len(seq) = Cardinality(S)
    /\ \A x \in S : InSeq(seq, x)

\* the number of times row occurs in what the units 1..n returned
RECURSIVE ReturnedCount(_, _)
ReturnedCount(row, n) ==
    IF n = 0 THEN 0
    ELSE ReturnedCount(row, n - 1)
         + (IF Returned(n) THEN Occurrences(ustate[n].results, row) ELSE 0)

DiscoveryFailed == \E i \in 1..Len(groupsLog) : groupsLog[i].status = "error"

\* C2: once discovery has succeeded main never stops because of a unit
\* that raised: a unit that raised is collected and the loop goes on to the
\* dump; and the document written holds exactly the CoinResults returned by
\* the units that completed successfully, each exactly once, and nothing of
\* a unit that raised.
C2_AsStated ==
    /\ pc = "crashed" => DiscoveryFailed /\ futures = <<>>
    /\ pc /= "aborted"
    /\ file.writes > 0 =>
           /\ ~file.torn
           /\ \A u \in Units : Finished(u)
           /\ \A i \in 1..Len(file.rows) :
                  Occurrences(file.rows, file.rows[i])
                      = ReturnedCount(file.rows[i], Len(futures))
           /\ \A u \in Units : \A i \in 1..Len(ustate[u].results) :
                  Returned(u) => InSeq(file.rows, ustate[u].results[i])

\* what the units of a collection order returned, in that order
RECURSIVE ConcatReturned(_)
ConcatReturned(order) ==
    IF order = <<>> THEN <<>>
    ELSE (IF Returned(order[1]) THEN ustate[order[1]].results ELSE <<>>)
         \o ConcatReturned(Tail(order))

\* some unit other than u returned the row and was collected
ReturnedElsewhere(row, u) ==
    \E v \in Units \ {u} :
        Returned(v) /\ InSeq(collected, v) /\ InSeq(ustate[v].results, row)

\* C3: all_rows only ever holds whole results of units that returned and
\* were collected, and the document only rows of all_rows; so a row built
\* from pages 1..k-1 of a unit whose fetch fails on page k > 1 is in neither,
\* unless another unit returned an equal row.
C3_NoPartialLeak ==
    /\ all_rows = ConcatReturned(collected)
    /\ \A i \in 1..Len(file.rows) : InSeq(all_rows, file.rows[i])
    /\ \A u \in Units :
           (Raised(u) /\ Len(ustate[u].log) > 1) =>
               \A i \in 1..Len(ustate[u].results) :
                   LET row == ustate[u].results[i]
                   IN  ~ReturnedElsewhere(row, u) =>
                           /\ ~InSeq(all_rows, row)
                           /\ ~InSeq(file.rows, row)

\* the run is over; a unit raised on page 2 holding the row of its page 1,
\* which no other unit returned, and the document holds rows of another unit
C3_Witness ==
    /\ pc = "done" /\ file.rows /= <<>>
    /\ \E u \in Units :
           /\ Raised(u) /\ Len(ustate[u].log) = 2 /\ Len(ustate[u].results) = 1
           /\ InSeq(collected, u)
           /\ ~ReturnedElsewhere(ustate[u].results[1], u)

Discovered == pc \notin {"discover", "crashed"}

\* C4: units exist and population requests are made only once the last
\* discovery request has returned successfully; if a discovery request
\* fails the run ends there: no unit, no population request, no write.
C4_DiscoveryFirst ==
    /\ (futures /= <<>> \/ DOMAIN popBackend /= {} \/ Discovered) =>
           /\ Discovered
           /\ groupsLog /= <<>>
           /\ EndsPagination(groupsLog[Len(groupsLog)])
           /\ ~DiscoveryFailed
    /\ DiscoveryFailed =>
           /\ pc = "crashed"
           /\ futures = <<>> /\ DOMAIN popBackend = {}
           /\ all_rows = <<>> /\ file = NoFile

\* discovery failed on page 2, after page 1 had listed a group
C4_Witness ==
    /\ pc = "crashed" /\ Len(groupsLog) = 2 /\ ids /= <<>>
    /\ groupsLog[2].status = "error"

\* the futures main submits for a list of group ids
RECURSIVE TwoPerId(_)
TwoPerId(g) ==
    IF g = <<>> THEN <<>>
    ELSE <<[gid |-> g[1], des |-> PF], [gid |-> g[1], des |-> MS]>>
         \o TwoPerId(Tail(g))

Opened == pc \in {"done", "print_failed", "dump_failed"}

\* C5: the file is opened and written at most once, and only when every
\* unit, two per discovered group id (PF then MS), has run to its end
\* (returned or raised, none cancelled) and has been collected.
C5_WriteAfterAll ==
    /\ file.writes <= 1
    /\ file.writes = 1 <=> Opened
    /\ file.writes = 0 => file = NoFile
    /\ (pc = "write" \/ Opened) =>
           /\ futures = TwoPerId(ids)
           /\ IsPermutationOf(collected, Units)
           /\ \A u \in Units :
                  /\ Finished(u)
                  /\ ustate[u].log /= <<>>

\* about to write, with the two units of one group collected
C5_Witness ==
    /\ pc = "write" /\ file.writes = 0
    /\ Len(futures) = 2 /\ Len(collected) = 2

\* every request for the same URL got the same response
BackendUnchanged ==
    \A url \in DOMAIN popBackend : Cardinality(popBackend[url]) = 1

Served(url) == CHOOSE data \in popBackend[url] : TRUE

\* the rows of the report (gid, des) as the backend serves it, from page p
RECURSIVE Report(_, _, _)
Report(gid, des, p) ==
    LET data == Served(<<gid, des, p>>)
        rows == PageRows(GetItems(data), gid, des, Len(GetItems(data)))
    IN  IF data.status = "error" THEN [ok |-> FALSE, rows |-> <<>>]
        ELSE IF GetItems(data) = <<>> \/ data.ShowNextPage /= "true"
        THEN [ok |-> TRUE, rows |-> rows]
        ELSE LET later == Report(gid, des, p + 1)
             IN  [ok |-> later.ok,
                  rows |-> IF later.ok THEN rows \o later.rows ELSE <<>>]

RECURSIVE ConcatReports(_)
ConcatReports(order) ==
    IF order = <<>> THEN <<>>
    ELSE Report(futures[order[1]].gid, futures[order[1]].des, 1).rows
         \o ConcatReports(Tail(order))

\* C7: against an unchanged backend the document left by a run that came
\* to write it depends on the interleaving only through the order of the
\* units: it is whole and holds, for some order of the units, the rows of
\* each unit's report as the backend serves it, each report contiguous and
\* in server order.
C7_AsStated ==
    (BackendUnchanged /\ file.writes > 0) =>
        /\ ~file.torn
        /\ IsPermutationOf(collected, Units)
        /\ file.rows = ConcatReports(collected)

(***************************************************************************)
(* The pool of main seen as counters: the units are alike, so only their   *)
(* numbers are kept.  A request may hang for ever: requests.get is called  *)
(* without a timeout.                                                      *)
(*   total      units main will submit (two per discovered group id)       *)
(*   submitted  units submitted so far                                     *)
(*   started    units a worker thread has taken                            *)
(*   hung       started units whose request never answers                  *)
(*   finished   units that returned or raised and wait to be collected     *)
(*   collected  units yielded by as_completed                              *)
(***************************************************************************)
PoolQueued == pool.submitted - pool.started

PoolInFlight == pool.started - pool.finished - pool.collected

PoolRunning == PoolInFlight - pool.hung

InitPool ==
    /\ pc = "submit" /\ IdleData /\ IdleFn
    /\ \E g \in 0..PoolMaxGroups :
           pool = [total |-> 2 * g, submitted |-> 0, started |-> 0,
                   hung |-> 0, finished |-> 0, collected |-> 0]

\* one executor.submit of "for gid in group_ids"
PoolSubmit ==
    /\ pc = "submit"
    /\ pool.submitted < pool.total
    /\ pool' = [pool EXCEPT !.submitted = @ + 1]
    /\ UNCHANGED <<mainVars, fnVars>>

PoolBeginCollect ==
    /\ pc = "submit"
    /\ pool.submitted = pool.total
    /\ pc' = "collect"
    /\ UNCHANGED <<page, ids, groupsLog, futures, ustate, popBackend,
                   collected, all_rows, file, stdout, pool, fnVars>>

\* ThreadPoolExecutor(max_workers=10): a thread is free to take a unit
PoolSlotFree == PoolInFlight < max_workers

PoolStart ==
    /\ PoolQueued > 0
    /\ PoolSlotFree
    /\ pool' = [pool EXCEPT !.started = @ + 1]
    /\ UNCHANGED <<mainVars, fnVars>>

\* a running unit returns or raises
PoolFinish ==
    /\ PoolRunning > 0
    /\ pool' = [pool EXCEPT !.finished = @ + 1]
    /\ UNCHANGED <<mainVars, fnVars>>

\* a request of a running unit never answers
PoolHang ==
    /\ PoolRunning > 0
    /\ pool' = [pool EXCEPT !.hung = @ + 1]
    /\ UNCHANGED <<mainVars, fnVars>>

\* one turn of the as_completed loop: the unit it yields returned, or it
\* raised and the except branch prints
PoolCollect ==
    /\ pc = "collect"
    /\ pool.finished > 0
    /\ pool' = [pool EXCEPT !.finished = @ - 1, !.collected = @ + 1]
    /\ \E raised \in BOOLEAN :
           IF raised
           THEN \E out \in PrintOutcomes :
                    IF out = "printed"
                    THEN stdout' = "encodes" /\ UNCHANGED pc
                    ELSE pc' = "aborted" /\ UNCHANGED stdout
           ELSE UNCHANGED <<pc, stdout>>
    /\ UNCHANGED <<page, ids, groupsLog, futures, ustate, popBackend,
                   collected, all_rows, file, fnVars>>

PoolExit ==
    /\ pc = "collect"
    /\ pool.collected = pool.total
    /\ pc' = "write"
    /\ UNCHANGED <<page, ids, groupsLog, futures, ustate, popBackend,
                   collected, all_rows, file, stdout, pool, fnVars>>

\* the dump and the last print; whether the rows hold a string the file
\* cannot encode is not kept by the counters
PoolWrite ==
    /\ pc = "write"
    /\ \E encodable \in BOOLEAN :
           IF encodable
           THEN /\ file' = [writes |-> file.writes + 1, rows |-> all_rows,
                            torn |-> FALSE]
                /\ \E out \in PrintOutcomes :
                       IF out = "printed"
                       THEN pc' = "done" /\ stdout' = "encodes"
                       ELSE pc' = "print_failed" /\ UNCHANGED stdout
           ELSE /\ file' = [writes |-> file.writes + 1, rows |-> <<>>,
                            torn |-> TRUE]
                /\ pc' = "dump_failed"
                /\ UNCHANGED stdout
    /\ UNCHANGED <<page, ids, groupsLog, futures, ustate, popBackend,
                   collected, all_rows, pool, fnVars>>

NextPool ==
    \/ PoolSubmit
    \/ PoolBeginCollect
    \/ PoolStart
    \/ PoolFinish
    \/ PoolHang
    \/ PoolCollect
    \/ PoolExit
    \/ PoolWrite

\* The main thread and the worker threads are scheduled fairly, and a
\* request that does not hang answers.  Nothing forces a request to hang.
SpecPool ==
    /\ InitPool /\ [][NextPool]_vars
    /\ WF_vars(PoolSubmit) /\ WF_vars(PoolBeginCollect)
    /\ WF_vars(PoolStart) /\ WF_vars(PoolFinish)
    /\ WF_vars(PoolCollect) /\ WF_vars(PoolExit) /\ WF_vars(PoolWrite)

AllSlotsHung == pool.hung = max_workers

\* C6: at most 10 units are in flight, a hung unit among them for good;
\* with all 10 slots hung no unit starts any more and the document is never
\* written; and unless all 10 slots come to be hung, every unit that does
\* not hang is in the end submitted, run and collected.
C6_AsStated ==
    /\ [](PoolInFlight <= max_workers /\ PoolRunning >= 0)
    /\ [][/\ pool'.hung >= pool.hung
          /\ AllSlotsHung => pool'.started = pool.started]_vars
    /\ [](AllSlotsHung => pc /= "write" /\ ~Opened)
    /\ <>[](\/ AllSlotsHung
            \/ /\ pool.submitted = pool.total
               /\ pool.collected + pool.hung = pool.total)

====
